---------------------------- MODULE Spec2Model ----------------------------
(***************************************************************************)
(* Model of the colour core of Color_nedo_hunt.py: ColorUtility            *)
(* (normalize_color, is_valid_color, relative_luminance, rgb_to_hex), the  *)
(* three recolour strategies, StrategyFactory and                          *)
(* ColorRecolorService.recolor_palette.                                    *)
(*                                                                         *)
(* A Python str is a sequence of one-character strings.  Characters that   *)
(* are not ASCII are written by code point: "U+0430" is Cyrillic small a.  *)
(* A Python float in [0, 2] is an integer count of 1/SCALE units; FMul and *)
(* FDiv round toward zero where the float operation rounds to nearest.     *)
(***************************************************************************)
EXTENDS Integers, Sequences, FiniteSets, TLC

VARIABLES
    \* ---- one call of ColorRecolorService.recolor_palette ----
    pc,               \* position inside recolor_palette
    original_colors,  \* argument: list of raw colour strings
    target_base,      \* argument: raw target colour string
    intensity,        \* argument: float, in 1/SCALE units
    mode,             \* argument: RecolorMode member
    valid_colors,     \* local: normalised survivors of the filter
    target_hls,       \* local: HLS triple of the target
    luminances,       \* local: luminance of every survivor
    min_lum,          \* local
    max_lum,          \* local
    lum_range,        \* local
    steps,            \* per item: what the loop body computed (ratio, raw and clamped HLS)
    results,          \* local: list of ColorResult
    outcome,          \* "none" | "returned" | name of the exception raised
    \* ---- ColorUtility applied to one token ----
    token,            \* raw colour string under test
    npc,              \* position of the normalisation run
    norm1,            \* normalize_color(token)
    norm2,            \* normalize_color(norm1)
    valid,            \* is_valid_color(token)
    \* ---- what outlives a call ----
    strategies,       \* StrategyFactory._strategies, shared by every call
    earlier,          \* an earlier completed call, kept by its caller
    \* ---- a strategy or relative_luminance called on its own ----
    trial,            \* the arguments and the value returned
    \* ---- ColorRecolorApp and its two ColorPaletteFrame panels ----
    gpc,              \* position inside process_colors
    base_color_entry, \* text of the base colour entry
    mode_var,         \* StringVar behind the mode radio buttons
    intensity_var,    \* DoubleVar behind the intensity slider
    left_entries,     \* left_panel.entries: text of each entry
    right_entries,    \* right_panel.entries
    left_previews,    \* left_panel.previews: bg of each preview label
    right_previews,   \* right_panel.previews
    result_text,      \* what the result text widget shows
    process_btn,      \* text, bg and state of the process button
    normalized_base,  \* local of process_colors
    original_text,    \* local of process_colors
    original_bg,      \* local of process_colors
    left_colors,      \* local of process_colors
    right_colors,     \* local of process_colors
    left_results,     \* local of process_colors
    right_results,    \* local of process_colors
    pending           \* the exception in flight inside process_colors

vars == <<pc, original_colors, target_base, intensity, mode, valid_colors,
          target_hls, luminances, min_lum, max_lum, lum_range, steps,
          results, outcome, token, npc, norm1, norm2, valid,
          strategies, earlier, trial,
          gpc, base_color_entry, mode_var, intensity_var, left_entries,
          right_entries, left_previews, right_previews, result_text,
          process_btn, normalized_base, original_text, original_bg,
          left_colors, right_colors, left_results, right_results, pending>>

callVars == <<pc, original_colors, target_base, intensity, mode, valid_colors,
              target_hls, luminances, min_lum, max_lum, lum_range, steps,
              results, outcome>>

tokenVars == <<token, npc, norm1, norm2, valid>>

sharedVars == <<strategies, earlier, trial>>

guiVars == <<gpc, base_color_entry, mode_var, intensity_var, left_entries,
             right_entries, left_previews, right_previews, result_text,
             process_btn, normalized_base, original_text, original_bg,
             left_colors, right_colors, left_results, right_results, pending>>

---------------------------------------------------------------------------
(* Characters and strings                                                  *)

HexDigits == {"0","1","2","3","4","5","6","7","8","9","a","b","c","d","e","f"}

\* int(c, 16) for one lower-case hex digit
HexVal(c) ==
    CASE c = "0" -> 0  [] c = "1" -> 1  [] c = "2" -> 2  [] c = "3" -> 3
      [] c = "4" -> 4  [] c = "5" -> 5  [] c = "6" -> 6  [] c = "7" -> 7
      [] c = "8" -> 8  [] c = "9" -> 9  [] c = "a" -> 10 [] c = "b" -> 11
      [] c = "c" -> 12 [] c = "d" -> 13 [] c = "e" -> 14 [] c = "f" -> 15

\* format(n, 'x') for n in 0..15
HexChar(n) ==
    <<"0","1","2","3","4","5","6","7","8","9","a","b","c","d","e","f">>[n + 1]

\* str.isspace
Whitespace == {" ", "\t", "\n"}

\* str.lower on one character, ASCII letters only
LowerCharAscii(c) ==
    CASE c = "A" -> "a" [] c = "B" -> "b" [] c = "C" -> "c" [] c = "D" -> "d"
      [] c = "E" -> "e" [] c = "F" -> "f" [] c = "R" -> "r" [] c = "Z" -> "z"
      [] OTHER -> c

\* str.lower on one character: the upper-case letters the model's strings use
LowerChar(c) ==
    CASE c = "A" -> "a" [] c = "B" -> "b" [] c = "C" -> "c" [] c = "D" -> "d"
      [] c = "E" -> "e" [] c = "F" -> "f" [] c = "R" -> "r" [] c = "Z" -> "z"
      [] c = "U+0410" -> "U+0430"   \* Cyrillic A
      [] c = "U+0412" -> "U+0432"   \* Cyrillic Ve
      [] c = "U+0421" -> "U+0441"   \* Cyrillic Es
      [] c = "U+041A" -> "U+043A"   \* Cyrillic Ka
      [] c = "U+042F" -> "U+044F"   \* Cyrillic Ya
      [] c = "U+042C" -> "U+044C"   \* Cyrillic soft sign
      [] OTHER -> c

Lower(s) == [i \in 1..Len(s) |-> LowerChar(s[i])]

RECURSIVE LStrip(_)
LStrip(s) ==
    IF s # <<>> /\ Head(s) \in Whitespace THEN LStrip(Tail(s)) ELSE s

RECURSIVE RStrip(_)
RStrip(s) ==
    IF s # <<>> /\ s[Len(s)] \in Whitespace
    THEN RStrip(SubSeq(s, 1, Len(s) - 1))
    ELSE s

\* str.strip
Strip(s) == RStrip(LStrip(s))

\* ColorUtility.CYRILLIC_TO_LATIN, in the dict's insertion order
CYRILLIC_TO_LATIN ==
    << <<"U+0430", <<"a">>>>, <<"U+0432", <<"b">>>>, <<"U+0441", <<"c">>>>,
       <<"U+0435", <<"e">>>>, <<"U+043A", <<"k">>>>, <<"U+043C", <<"m">>>>,
       <<"U+043E", <<"o">>>>, <<"U+0440", <<"p">>>>, <<"U+0442", <<"t">>>>,
       <<"U+0445", <<"x">>>>, <<"U+0443", <<"y">>>>, <<"U+0451", <<"e">>>>,
       <<"U+044A", <<>>>>,    <<"U+044C", <<>>>>,    <<"U+044B", <<"y">>>>,
       <<"U+044D", <<"e">>>>, <<"U+044E", <<"y","u">>>>,
       <<"U+044F", <<"y","a">>>> >>

\* str.replace(cyr, lat) for a one-character cyr
RECURSIVE ReplaceEach(_, _, _)
ReplaceEach(s, cyr, lat) ==
    IF s = <<>> THEN <<>>
    ELSE (IF Head(s) = cyr THEN lat ELSE <<Head(s)>>) \o ReplaceEach(Tail(s), cyr, lat)

Replace(s, cyr, lat) ==
    IF \A k \in 1..Len(s) : s[k] # cyr THEN s ELSE ReplaceEach(s, cyr, lat)

\* the loop `for cyr, lat in CYRILLIC_TO_LATIN.items(): color = color.replace(cyr, lat)`
RECURSIVE ReplaceFrom(_, _)
ReplaceFrom(s, k) ==
    IF k > Len(CYRILLIC_TO_LATIN) THEN s
    ELSE ReplaceFrom(Replace(s, CYRILLIC_TO_LATIN[k][1], CYRILLIC_TO_LATIN[k][2]), k + 1)

\* re.sub(r'[^0-9a-f#]', '', color)
RemoveInvalid(s) == SelectSeq(s, LAMBDA c : c \in HexDigits \cup {"#"})

\* ''.join(c * 2 for c in s)
RECURSIVE Doubled(_)
Doubled(s) ==
    IF s = <<>> THEN <<>> ELSE <<Head(s), Head(s)>> \o Doubled(Tail(s))

\* ExpandShape with the bare three-digit form doubled but left without '#'
ExpandShapeBareUnprefixed(color) ==
    IF color # <<>> /\ Head(color) = "#"
    THEN IF Len(color) = 4 THEN <<"#">> \o Doubled(Tail(color)) ELSE Lower(color)
    ELSE IF Len(color) = 3 THEN Doubled(color)
    ELSE IF Len(color) = 6 THEN <<"#">> \o color
    ELSE color

\* ExpandShape with the bare three-digit form prefixed but not doubled
ExpandShapeShortUndoubled(color) ==
    IF color # <<>> /\ Head(color) = "#"
    THEN IF Len(color) = 4 THEN <<"#">> \o Doubled(Tail(color)) ELSE Lower(color)
    ELSE IF Len(color) = 3 THEN <<"#">> \o color
    ELSE IF Len(color) = 6 THEN <<"#">> \o color
    ELSE color

\* ExpandShape with the '#' and three digits form returned as it is
ExpandShapeNoShortHash(color) ==
    IF color # <<>> /\ Head(color) = "#"
    THEN Lower(color)
    ELSE IF Len(color) = 3 THEN <<"#">> \o Doubled(color)
    ELSE IF Len(color) = 6 THEN <<"#">> \o color
    ELSE color

\* the length/prefix dispatch at the end of normalize_color
\* (str.lower is the identity on strings over [0-9a-f#])
ExpandShape(color) ==
    IF color # <<>> /\ Head(color) = "#"
    THEN IF Len(color) = 4 THEN <<"#">> \o Doubled(Tail(color)) ELSE Lower(color)
    ELSE IF Len(color) = 3 THEN <<"#">> \o Doubled(color)
    ELSE IF Len(color) = 6 THEN <<"#">> \o color
    ELSE color

\* ColorUtility.normalize_color
normalize_color(color) ==
    IF color = <<>> THEN color
    ELSE ExpandShape(RemoveInvalid(ReplaceFrom(Lower(Strip(color)), 1)))

---------------------------------------------------------------------------
(* PIL.ImageColor.getrgb, as ColorUtility and the service call it          *)

\* ImageColor.colormap restricted to the names the model's strings can spell;
\* every name of the full table contains a letter outside [a-f]
colormap_names == { <<"r","e","d">> }

colormap(name) == <<255, 0, 0>>

\* re.match("#[a-f0-9]{n}$", color): '$' also matches before one final newline
IsHashHex(color, n) ==
    /\ Len(color) \in {n + 1, n + 2}
    /\ color[1] = "#"
    /\ \A i \in 2..(n + 1) : color[i] \in HexDigits
    /\ Len(color) = n + 2 => color[n + 2] = "\n"

\* the functional notations rgb(...), hsl(...), hsv(...) need parentheses and
\* are not reached by the model's strings
getrgb_raises(color) ==
    LET c == Lower(color) IN
    /\ c \notin colormap_names
    /\ \A n \in {3, 4, 6, 8} : ~IsHashHex(c, n)

\* the tuple getrgb returns: 3 channels, or 4 for #rgba and #rrggbbaa
getrgb(color) ==
    LET c == Lower(color) IN
    IF c \in colormap_names THEN colormap(c)
    ELSE IF IsHashHex(c, 3) THEN [i \in 1..3 |-> 17 * HexVal(c[i + 1])]
    ELSE IF IsHashHex(c, 4) THEN [i \in 1..4 |-> 17 * HexVal(c[i + 1])]
    ELSE IF IsHashHex(c, 6) THEN [i \in 1..3 |-> 16 * HexVal(c[2 * i]) + HexVal(c[2 * i + 1])]
    ELSE [i \in 1..4 |-> 16 * HexVal(c[2 * i]) + HexVal(c[2 * i + 1])]

\* ColorUtility.is_valid_color
is_valid_color(color) ==
    IF color = <<>> \/ Strip(color) = <<>> THEN FALSE
    ELSE LET normalized == normalize_color(color) IN
         IF normalized = <<>> THEN FALSE
         ELSE ~getrgb_raises(normalized)

---------------------------------------------------------------------------
(* Floats                                                                  *)

\* resolution of the fixed-point floats: 1.0 is SCALE units (a multiple of 6,
\* so that 1/3, 1/6 and 2/3 of colorsys are whole)
SCALE == 6 * 5000

FMul(a, b) == (a * b) \div SCALE

FDiv(a, b) == (a * SCALE) \div b

Min2(a, b) == IF a <= b THEN a ELSE b

Max2(a, b) == IF a >= b THEN a ELSE b

\* a decimal literal n/d of the source
Dec(n, d) == (n * SCALE) \div d

\* y ** 5
Pow5(y) == FMul(FMul(FMul(FMul(y, y), y), y), y)

\* the largest y in lo..hi with y ** 5 <= q
RECURSIVE Root5(_, _, _)
Root5(q, lo, hi) ==
    IF lo >= hi THEN lo
    ELSE LET mid == (lo + hi + 1) \div 2 IN
         IF Pow5(mid) <= q THEN Root5(q, mid, hi) ELSE Root5(q, lo, mid - 1)

\* x ** 2.4 for x in [0, 1], as x**2 * (x**2) ** (1/5)
Pow24(x) == FMul(FMul(x, x), Root5(FMul(x, x), 0, SCALE))

\* adjust with the linear branch taken up to 0.4045
adjustLinearToFourTenths(channel) ==
    IF channel * 2000 <= 809 * SCALE
    THEN (channel * 100) \div 1292
    ELSE Pow24(FDiv(channel + Dec(55, 1000), Dec(1055, 1000)))

\* the inner function adjust of relative_luminance
adjust(channel) ==
    IF channel * 20000 <= 809 * SCALE      \* channel <= 0.04045
    THEN (channel * 100) \div 1292         \* channel / 12.92
    ELSE Pow24(FDiv(channel + Dec(55, 1000), Dec(1055, 1000)))

\* x / 255.0 for an integer channel x
Unit(x) == (x * SCALE) \div 255

\* adjust(x / 255.0) for every integer channel x, evaluated once
adjusted == [x \in 0..255 |-> adjust(Unit(x))]

\* ColorUtility.relative_luminance on a 3-tuple of integer channels
relative_luminance(rgb) ==
    (2126 * adjusted[rgb[1]] + 7152 * adjusted[rgb[2]]
       + 722 * adjusted[rgb[3]]) \div 10000

\* `r, g, b = [...]` in relative_luminance fails on a tuple of 4 channels
relative_luminance_raises(rgb) == Len(rgb) # 3

---------------------------------------------------------------------------
(* colorsys                                                                *)

ONE_THIRD == SCALE \div 3

ONE_SIXTH == SCALE \div 6

TWO_THIRD == (2 * SCALE) \div 3

\* colorsys.rgb_to_hls; the result is <<h, l, s>>
rgb_to_hls(r, g, b) ==
    LET maxc == Max2(r, Max2(g, b))
        minc == Min2(r, Min2(g, b))
        sumc == maxc + minc
        rangec == maxc - minc
        l == sumc \div 2
    IN  IF minc = maxc THEN <<0, l, 0>>
        ELSE LET s == IF l <= SCALE \div 2 THEN FDiv(rangec, sumc)
                      ELSE FDiv(rangec, 2 * SCALE - maxc - minc)
                 rc == FDiv(maxc - r, rangec)
                 gc == FDiv(maxc - g, rangec)
                 bc == FDiv(maxc - b, rangec)
                 h == IF r = maxc THEN bc - gc
                      ELSE IF g = maxc THEN 2 * SCALE + rc - bc
                      ELSE 4 * SCALE + gc - rc
             IN  <<(h \div 6) % SCALE, l, s>>

\* colorsys._v
v_(m1, m2, hue0) ==
    LET hue == hue0 % SCALE IN
    IF hue < ONE_SIXTH THEN m1 + FMul(m2 - m1, hue * 6)
    ELSE IF hue < SCALE \div 2 THEN m2
    ELSE IF hue < TWO_THIRD THEN m1 + FMul(m2 - m1, (TWO_THIRD - hue) * 6)
    ELSE m1

\* colorsys.hls_to_rgb; the result is <<r, g, b>>
hls_to_rgb(h, l, s) ==
    IF s = 0 THEN <<l, l, l>>
    ELSE LET m2 == IF l <= SCALE \div 2 THEN FMul(l, SCALE + s)
                   ELSE l + s - FMul(l, s)
             m1 == 2 * l - m2
         IN  <<v_(m1, m2, h + ONE_THIRD), v_(m1, m2, h), v_(m1, m2, h - ONE_THIRD)>>

\* np.clip
clip(x, lo, hi) == IF x < lo THEN lo ELSE IF x > hi THEN hi ELSE x

\* int(c * 255): truncation
TruncChannel(c) == (c * 255) \div SCALE

\* int(round(x * 255)): round half to even
RoundChannel(x) ==
    LET n == x * 255
        q == n \div SCALE
        twice == 2 * (n % SCALE)
    IN  IF twice < SCALE THEN q
        ELSE IF twice > SCALE THEN q + 1
        ELSE IF q % 2 = 0 THEN q ELSE q + 1

\* tuple(int(c * 255) for c in rgb)
TruncRgb(rgb) == [k \in 1..3 |-> TruncChannel(rgb[k])]

\* tuple(int(round(x * 255)) for x in rgb)
RoundRgb(rgb) == [k \in 1..3 |-> RoundChannel(rgb[k])]

\* np.array(rgb) / 255.0 followed by colorsys.rgb_to_hls(*...)
HlsOfRgb(rgb) == rgb_to_hls(Unit(rgb[1]), Unit(rgb[2]), Unit(rgb[3]))

\* ColorUtility.rgb_to_hex: "#{:02x}{:02x}{:02x}" on channels in 0..255
rgb_to_hex(rgb) ==
    <<"#", HexChar(rgb[1] \div 16), HexChar(rgb[1] % 16),
           HexChar(rgb[2] \div 16), HexChar(rgb[2] % 16),
           HexChar(rgb[3] \div 16), HexChar(rgb[3] % 16)>>

---------------------------------------------------------------------------
(* Recolour strategies: each takes and returns <<h, l, s>> triples          *)

\* class RecolorMode
RecolorMode == {"keep_hue", "full_recolor", "mixed"}

\* the blend with the two weights exchanged
BlendSwapped(orig, new, i) == FMul(orig, i) + FMul(new, SCALE - i)

\* orig * (1 - intensity) + new * intensity
Blend(orig, new, i) == FMul(orig, SCALE - i) + FMul(new, i)

\* KeepHueStrategy.recolor with the lightness falling as the ratio rises
KeepHueStrategyInverted(original_hls, target, luminance_ratio, i) ==
    LET orig_h == original_hls[1]
        orig_l == original_hls[2]
        orig_s == original_hls[3]
        target_s == target[3]
        new_h == orig_h
        new_l == Dec(9, 10) - FMul(Dec(7, 10), luminance_ratio)
        new_s == FMul(target_s, Dec(7, 10)) + FMul(orig_s, Dec(3, 10))
    IN  IF i < SCALE
        THEN <<Blend(orig_h, new_h, i), Blend(orig_l, new_l, i), Blend(orig_s, new_s, i)>>
        ELSE <<new_h, new_l, new_s>>

\* KeepHueStrategy.recolor with the two saturation weights exchanged
KeepHueStrategySwappedWeights(original_hls, target, luminance_ratio, i) ==
    LET orig_h == original_hls[1]
        orig_l == original_hls[2]
        orig_s == original_hls[3]
        target_s == target[3]
        new_h == orig_h
        new_l == Dec(2, 10) + FMul(Dec(7, 10), luminance_ratio)
        new_s == FMul(target_s, Dec(3, 10)) + FMul(orig_s, Dec(7, 10))
    IN  IF i < SCALE
        THEN <<Blend(orig_h, new_h, i), Blend(orig_l, new_l, i), Blend(orig_s, new_s, i)>>
        ELSE <<new_h, new_l, new_s>>

\* KeepHueStrategy.recolor
KeepHueStrategy(original_hls, target, luminance_ratio, i) ==
    LET orig_h == original_hls[1]
        orig_l == original_hls[2]
        orig_s == original_hls[3]
        target_s == target[3]
        new_h == orig_h
        new_l == Dec(2, 10) + FMul(Dec(7, 10), luminance_ratio)
        new_s == FMul(target_s, Dec(7, 10)) + FMul(orig_s, Dec(3, 10))
    IN  IF i < SCALE
        THEN <<Blend(orig_h, new_h, i), Blend(orig_l, new_l, i), Blend(orig_s, new_s, i)>>
        ELSE <<new_h, new_l, new_s>>

\* FullRecolorStrategy.recolor with the bright branch taken from 0.7 on
FullRecolorStrategyInclusive(original_hls, target, luminance_ratio, i) ==
    LET orig_h == original_hls[1]
        orig_l == original_hls[2]
        orig_s == original_hls[3]
        target_h == target[1]
        target_s == target[3]
        new_h == target_h
        max_orig_lum == luminance_ratio
        new_l == IF max_orig_lum >= Dec(7, 10)
                 THEN Dec(5, 10) + FMul(Dec(4, 10), luminance_ratio)
                 ELSE Dec(2, 10) + FMul(Dec(5, 10), luminance_ratio)
        orig_lum == relative_luminance(TruncRgb(hls_to_rgb(orig_h, orig_l, orig_s)))
        new_s == FMul(target_s, Dec(8, 10) + FMul(Dec(2, 10), SCALE - orig_lum))
    IN  IF i < SCALE
        THEN <<Blend(orig_h, new_h, i), Blend(orig_l, new_l, i), Blend(orig_s, new_s, i)>>
        ELSE <<new_h, new_l, new_s>>

\* FullRecolorStrategy.recolor
FullRecolorStrategy(original_hls, target, luminance_ratio, i) ==
    LET orig_h == original_hls[1]
        orig_l == original_hls[2]
        orig_s == original_hls[3]
        target_h == target[1]
        target_s == target[3]
        new_h == target_h
        max_orig_lum == luminance_ratio
        new_l == IF max_orig_lum > Dec(7, 10)
                 THEN Dec(5, 10) + FMul(Dec(4, 10), luminance_ratio)
                 ELSE Dec(2, 10) + FMul(Dec(5, 10), luminance_ratio)
        orig_lum == relative_luminance(TruncRgb(hls_to_rgb(orig_h, orig_l, orig_s)))
        new_s == FMul(target_s, Dec(8, 10) + FMul(Dec(2, 10), SCALE - orig_lum))
    IN  IF i < SCALE
        THEN <<Blend(orig_h, new_h, i), Blend(orig_l, new_l, i), Blend(orig_s, new_s, i)>>
        ELSE <<new_h, new_l, new_s>>

\* MixedStrategy.recolor with its result blended with the original once more
MixedStrategyBlendedTwice(original_hls, target, luminance_ratio, i) ==
    LET orig_h == original_hls[1]
        orig_l == original_hls[2]
        orig_s == original_hls[3]
        target_h == target[1]
        target_s == target[3]
    IN  <<Blend(orig_h, FMul(orig_h, SCALE - i) + FMul(target_h, i), i),
          Blend(orig_l, FMul(orig_l, SCALE - i)
                           + FMul(Dec(3, 10) + FMul(Dec(6, 10), luminance_ratio), i), i),
          Blend(orig_s, FMul(orig_s, SCALE - i) + FMul(target_s, i), i)>>

\* MixedStrategy.recolor
MixedStrategy(original_hls, target, luminance_ratio, i) ==
    LET orig_h == original_hls[1]
        orig_l == original_hls[2]
        orig_s == original_hls[3]
        target_h == target[1]
        target_s == target[3]
    IN  <<FMul(orig_h, SCALE - i) + FMul(target_h, i),
          FMul(orig_l, SCALE - i)
             + FMul(Dec(3, 10) + FMul(Dec(6, 10), luminance_ratio), i),
          FMul(orig_s, SCALE - i) + FMul(target_s, i)>>

\* StrategyFactory._strategies as the class body builds it: the name of the
\* strategy object registered for each mode
StrategyTable ==
    [m \in RecolorMode |->
        CASE m = "keep_hue" -> "KeepHueStrategy"
          [] m = "full_recolor" -> "FullRecolorStrategy"
          [] m = "mixed" -> "MixedStrategy"]

\* arguments of get_strategy that are no RecolorMode member: None, the str
\* 'keep_hue' and an empty list
NonModes == {"None", "'keep_hue'", "[]"}

\* dict.get hashes its key first: a list has no hash
get_strategy_raises(m) == m = "[]"

\* get_strategy with the strategy of KEEP_HUE for the default
get_strategyDefaultKeepHue(m) ==
    IF m \in DOMAIN strategies THEN strategies[m] ELSE strategies["keep_hue"]

\* StrategyFactory.get_strategy: cls._strategies.get(mode, cls._strategies[FULL_RECOLOR])
get_strategy(m) ==
    IF m \in DOMAIN strategies THEN strategies[m] ELSE strategies["full_recolor"]

\* strategy.recolor(orig_hls, target_hls, lum_ratio, intensity)
recolor(strategy, original_hls, target, luminance_ratio, i) ==
    CASE strategy = "KeepHueStrategy" ->
            KeepHueStrategy(original_hls, target, luminance_ratio, i)
      [] strategy = "FullRecolorStrategy" ->
            FullRecolorStrategy(original_hls, target, luminance_ratio, i)
      [] strategy = "MixedStrategy" ->
            MixedStrategy(original_hls, target, luminance_ratio, i)

---------------------------------------------------------------------------
(* Inputs                                                                  *)

\* longest list of colours passed to recolor_palette
MaxColors == 3

\* longest token over LongAlphabet
MaxLongLen == 9

\* longest token over MixedAlphabet
MaxMixedLen == 4

\* all sequences over A of length 0..n
SeqsUpTo(A, n) == UNION {[1..k -> A] : k \in 0..n}

\* entries a caller types into a palette field
ColorPool ==
    { <<"#","F","F","F">>,                   \* white, upper-case short form
      <<"0","0","0">>,                       \* black, bare short form
      <<"#","0","0","0","0","3","3">>,       \* dark blue
      <<"z","z","z","z","z","z">>,           \* no hex digit at all
      <<"#","a","b","c","d">> }              \* four hex digits

\* base colours a caller passes
TargetPool ==
    { <<"#","3","4","9","8","d","b">>,       \* a blue, canonical form
      <<"#","f","f","0","0","0","0">>,       \* red, canonical form
      <<"f","f","0","0","0","0">>,           \* red, bare form
      <<"#","f","0","0","f">>,               \* four hex digits
      <<"r","e","d">>,                       \* a colour name
      <<"z","z","z">> }                      \* no hex digit at all

\* intensities a caller passes: 0.0, 0.5 and 1.0
IntensityPool == {0, SCALE \div 2, SCALE}

LongAlphabet == {"#", "a"}

MixedAlphabet == {"#", "a", "F", "z", " ", "U+0410", "U+044F", "U+044C"}

\* tokens typed on a Cyrillic keyboard layout: '#' and upper-case A A Ve Ve
\* Es Es; small ka, 'a', upper-case soft sign, 'b', upper-case Ka, 'c'
CyrillicTokens ==
    { <<"#", "U+0410", "U+0410", "U+0412", "U+0412", "U+0421", "U+0421">>,
      <<"U+043A", "a", "U+042C", "b", "U+041A", "c">> }

TokenPool ==
    SeqsUpTo(LongAlphabet, MaxLongLen) \cup SeqsUpTo(MixedAlphabet, MaxMixedLen)
        \cup CyrillicTokens

---------------------------------------------------------------------------
(* ColorRecolorService.recolor_palette, one action per step                *)

NoHLS == <<0, 0, 0>>

InitCall ==
    /\ pc = "idle"
    /\ original_colors = <<>>
    /\ target_base = <<>>
    /\ intensity = 0
    /\ mode = "keep_hue"
    /\ valid_colors = <<>>
    /\ target_hls = NoHLS
    /\ luminances = <<>>
    /\ min_lum = 0
    /\ max_lum = 0
    /\ lum_range = 0
    /\ steps = <<>>
    /\ results = <<>>
    /\ outcome = "none"

InitToken ==
    /\ token = <<>>
    /\ npc = "off"
    /\ norm1 = <<>>
    /\ norm2 = <<>>
    /\ valid = FALSE

\* no call remembered
NoCall == [args |-> <<>>, outcome |-> "none", results |-> <<>>]

\* nothing called on its own
NoTrial == [kind |-> "none"]

InitShared ==
    /\ strategies = StrategyTable
    /\ earlier = NoCall
    /\ trial = NoTrial

\* the process button as ColorRecolorApp builds it
ButtonAtRest == [text |-> "recolor palettes", bg |-> "#e74c3c", state |-> "normal"]

\* the button while process_colors runs
ButtonBusy == [text |-> "processing", bg |-> "#f39c12", state |-> "disabled"]

\* the application is not running
InitGui ==
    /\ gpc = "off"
    /\ base_color_entry = <<>>
    /\ mode_var = "full_recolor"
    /\ intensity_var = SCALE
    /\ left_entries = <<>>
    /\ right_entries = <<>>
    /\ left_previews = <<>>
    /\ right_previews = <<>>
    /\ result_text = "empty"
    /\ process_btn = ButtonAtRest
    /\ normalized_base = <<>>
    /\ original_text = ""
    /\ original_bg = ""
    /\ left_colors = <<>>
    /\ right_colors = <<>>
    /\ left_results = <<>>
    /\ right_results = <<>>
    /\ pending = "none"

Init == InitCall /\ InitToken /\ InitShared /\ InitGui

\* a caller enters recolor_palette(original_colors, target_base, intensity, mode)
EnterCall(colors, base, i, m) ==
    /\ pc = "idle"
    /\ original_colors' = colors
    /\ target_base' = base
    /\ intensity' = i
    /\ mode' = m
    /\ pc' = "filter"
    /\ UNCHANGED <<valid_colors, target_hls, luminances, min_lum, max_lum,
                   lum_range, steps, results, outcome>>

\* a caller enters recolor_palette with arguments drawn from the given sets
CallWith(colorLists, bases, intensities) ==
    /\ pc = "idle"
    /\ \E colors \in colorLists, base \in bases,
          i \in intensities, m \in RecolorMode :
          EnterCall(colors, base, i, m)
    /\ UNCHANGED tokenVars
    /\ UNCHANGED guiVars
    /\ UNCHANGED sharedVars

Call == CallWith(SeqsUpTo(ColorPool, MaxColors), TargetPool, IntensityPool)

\* the filter keeping the entries as typed, not normalised
FilterValidUnnormalized(colors) == SelectSeq(colors, is_valid_color)

\* [normalize_color(c) for c in original_colors if is_valid_color(c)]
FilterValid(colors) ==
    LET kept == SelectSeq(colors, is_valid_color)
    IN  [k \in 1..Len(kept) |-> normalize_color(kept[k])]

\* FilterColors without the early return for an empty filtered list
FilterColorsNoEarlyReturn ==
    /\ pc = "filter"
    /\ valid_colors' = FilterValid(original_colors)
    /\ pc' = "target"
    /\ UNCHANGED <<original_colors, target_base, intensity, mode, target_hls,
                   luminances, min_lum, max_lum, lum_range, steps, results, outcome>>
    /\ UNCHANGED tokenVars
    /\ UNCHANGED guiVars
    /\ UNCHANGED sharedVars

\* the list comprehension and `if not valid_colors: return []`
FilterColors ==
    /\ pc = "filter"
    /\ valid_colors' = FilterValid(original_colors)
    /\ IF valid_colors' = <<>>
       THEN /\ pc' = "done"
            /\ outcome' = "returned"
       ELSE /\ pc' = "target"
            /\ UNCHANGED outcome
    /\ UNCHANGED <<original_colors, target_base, intensity, mode, target_hls,
                   luminances, min_lum, max_lum, lum_range, steps, results>>
    /\ UNCHANGED tokenVars
    /\ UNCHANGED guiVars
    /\ UNCHANGED sharedVars

\* target_rgb = np.array(ImageColor.getrgb(target_base)) / 255.0
\* target_hls = colorsys.rgb_to_hls(*target_rgb)
ConvertTarget ==
    /\ pc = "target"
    /\ IF getrgb_raises(target_base)
       THEN /\ pc' = "done"
            /\ outcome' = "ValueError"
            /\ UNCHANGED target_hls
       ELSE IF Len(getrgb(target_base)) # 3
            THEN /\ pc' = "done"
                 /\ outcome' = "TypeError"
                 /\ UNCHANGED target_hls
            ELSE /\ pc' = "luminances"
                 /\ target_hls' = HlsOfRgb(getrgb(target_base))
                 /\ UNCHANGED outcome
    /\ UNCHANGED <<original_colors, target_base, intensity, mode, valid_colors,
                   luminances, min_lum, max_lum, lum_range, steps, results>>
    /\ UNCHANGED tokenVars
    /\ UNCHANGED guiVars
    /\ UNCHANGED sharedVars

\* min(luminances), max(luminances)
RECURSIVE SeqMin(_)
SeqMin(s) == IF Len(s) = 1 THEN s[1] ELSE Min2(s[1], SeqMin(Tail(s)))

RECURSIVE SeqMax(_)
SeqMax(s) == IF Len(s) = 1 THEN s[1] ELSE Max2(s[1], SeqMax(Tail(s)))

\* lum_range = max_lum - min_lum if max_lum != min_lum else 1.0
LumRange(lo, hi) == IF hi # lo THEN hi - lo ELSE SCALE

\* the ratio without the division by the range
LumRatioUndivided(orig_lum, lo, range) == orig_lum - lo

\* lum_ratio = (orig_lum - min_lum) / lum_range if lum_range > 0 else 0.5
LumRatio(orig_lum, lo, range) ==
    IF range > 0 THEN FDiv(orig_lum - lo, range) ELSE SCALE \div 2

\* ComputeLuminances with the first luminance of the list taken for the
\* smallest
ComputeLuminancesFirstAsMin ==
    /\ pc = "luminances"
    /\ IF \/ valid_colors = <<>>
          \/ \E k \in 1..Len(valid_colors) :
                \/ getrgb_raises(valid_colors[k])
                \/ relative_luminance_raises(getrgb(valid_colors[k]))
       THEN /\ pc' = "done"
            /\ outcome' = "ValueError"
            /\ UNCHANGED <<luminances, min_lum, max_lum, lum_range>>
       ELSE /\ luminances' = [k \in 1..Len(valid_colors) |->
                                 relative_luminance(getrgb(valid_colors[k]))]
            /\ min_lum' = luminances'[1]
            /\ max_lum' = SeqMax(luminances')
            /\ lum_range' = LumRange(min_lum', max_lum')
            /\ pc' = "loop"
            /\ UNCHANGED outcome
    /\ UNCHANGED <<original_colors, target_base, intensity, mode, valid_colors,
                   target_hls, steps, results>>
    /\ UNCHANGED tokenVars
    /\ UNCHANGED guiVars
    /\ UNCHANGED sharedVars

\* luminances = [relative_luminance(getrgb(c)) for c in valid_colors],
\* min_lum, max_lum and lum_range
ComputeLuminances ==
    /\ pc = "luminances"
    /\ IF \/ valid_colors = <<>>        \* min() of an empty list
          \/ \E k \in 1..Len(valid_colors) :
                \/ getrgb_raises(valid_colors[k])
                \/ relative_luminance_raises(getrgb(valid_colors[k]))
       THEN /\ pc' = "done"
            /\ outcome' = "ValueError"
            /\ UNCHANGED <<luminances, min_lum, max_lum, lum_range>>
       ELSE /\ luminances' = [k \in 1..Len(valid_colors) |->
                                 relative_luminance(getrgb(valid_colors[k]))]
            /\ min_lum' = SeqMin(luminances')
            /\ max_lum' = SeqMax(luminances')
            /\ lum_range' = LumRange(min_lum', max_lum')
            /\ pc' = "loop"
            /\ UNCHANGED outcome
    /\ UNCHANGED <<original_colors, target_base, intensity, mode, valid_colors,
                   target_hls, steps, results>>
    /\ UNCHANGED tokenVars
    /\ UNCHANGED guiVars
    /\ UNCHANGED sharedVars

\* the clamp without the floors of lightness and saturation
ClampNoFloor(raw) ==
    <<clip(raw[1], 0, SCALE),
      clip(raw[2], 0, Dec(95, 100)),
      clip(raw[3], 0, SCALE)>>

\* the clamp of the strategy's raw triple
Clamp(raw) ==
    <<clip(raw[1], 0, SCALE),
      clip(raw[2], Dec(1, 10), Dec(95, 100)),
      clip(raw[3], Dec(1, 10), SCALE)>>

\* what one iteration computes before the conversion back to RGB
LoopStep(orig_lum, lum_ratio, orig_hls, raw) ==
    [orig_lum |-> orig_lum, ratio |-> lum_ratio, orig_hls |-> orig_hls,
     raw |-> raw, clamped |-> Clamp(raw)]

\* ColorResult(color, rgb_to_hex(new_rgb_int), relative_luminance(new_rgb_int))
ColorResult(color, new_rgb_int) ==
    [original |-> color, new_color |-> rgb_to_hex(new_rgb_int),
     luminance |-> relative_luminance(new_rgb_int)]

\* the loop body up to the clamp, for the item `color` of luminance orig_lum
StepOf(orig_lum, lum_ratio, orig_hls) ==
    LoopStep(orig_lum, lum_ratio, orig_hls,
             recolor(get_strategy(mode), orig_hls, target_hls, lum_ratio, intensity))

\* the loop body from the clamped triple on, with int(x * 255) in place of
\* int(round(x * 255))
ResultOfTruncated(color, clamped) ==
    ColorResult(color, TruncRgb(hls_to_rgb(clamped[1], clamped[2], clamped[3])))

\* the loop body from the clamped triple on
ResultOf(color, clamped) ==
    ColorResult(color, RoundRgb(hls_to_rgb(clamped[1], clamped[2], clamped[3])))

\* RecolorItem with the strategy lookup registering the default strategy
\* under the mode it was asked for
RecolorItemRegistersDefault ==
    /\ pc = "loop"
    /\ Len(results) < Len(valid_colors)
    /\ steps' = Append(steps,
                       StepOf(luminances[Len(results) + 1],
                              LumRatio(luminances[Len(results) + 1], min_lum, lum_range),
                              HlsOfRgb(getrgb(valid_colors[Len(results) + 1]))))
    /\ results' = Append(results,
                         ResultOf(valid_colors[Len(results) + 1],
                                  steps'[Len(steps')].clamped))
    /\ strategies' = [strategies EXCEPT ![mode] = strategies["full_recolor"]]
    /\ UNCHANGED <<pc, original_colors, target_base, intensity, mode, valid_colors,
                   target_hls, luminances, min_lum, max_lum, lum_range, outcome>>
    /\ UNCHANGED tokenVars
    /\ UNCHANGED guiVars
    /\ UNCHANGED <<earlier, trial>>

\* one iteration of `for color, orig_lum in zip(valid_colors, luminances)`
RecolorItem ==
    /\ pc = "loop"
    /\ Len(results) < Len(valid_colors)
    /\ steps' = Append(steps,
                       StepOf(luminances[Len(results) + 1],
                              LumRatio(luminances[Len(results) + 1], min_lum, lum_range),
                              HlsOfRgb(getrgb(valid_colors[Len(results) + 1]))))
    /\ results' = Append(results,
                         ResultOf(valid_colors[Len(results) + 1],
                                  steps'[Len(steps')].clamped))
    /\ UNCHANGED <<pc, original_colors, target_base, intensity, mode, valid_colors,
                   target_hls, luminances, min_lum, max_lum, lum_range, outcome>>
    /\ UNCHANGED tokenVars
    /\ UNCHANGED guiVars
    /\ UNCHANGED sharedVars

\* return results
Return ==
    /\ pc = "loop"
    /\ Len(results) = Len(valid_colors)
    /\ pc' = "done"
    /\ outcome' = "returned"
    /\ UNCHANGED <<original_colors, target_base, intensity, mode, valid_colors,
                   target_hls, luminances, min_lum, max_lum, lum_range, steps, results>>
    /\ UNCHANGED tokenVars
    /\ UNCHANGED guiVars
    /\ UNCHANGED sharedVars

\* the call is over: its arguments, locals and result are dropped
LeaveCall ==
    /\ pc = "done"
    /\ pc' = "idle"
    /\ original_colors' = <<>>
    /\ target_base' = <<>>
    /\ intensity' = 0
    /\ mode' = "keep_hue"
    /\ valid_colors' = <<>>
    /\ target_hls' = NoHLS
    /\ luminances' = <<>>
    /\ min_lum' = 0
    /\ max_lum' = 0
    /\ lum_range' = 0
    /\ steps' = <<>>
    /\ results' = <<>>
    /\ outcome' = "none"

\* a caller that keeps nothing of the call
Finish ==
    /\ LeaveCall
    /\ UNCHANGED tokenVars
    /\ UNCHANGED guiVars
    /\ UNCHANGED sharedVars

Next == Call \/ FilterColors \/ ConvertTarget \/ ComputeLuminances
           \/ RecolorItem \/ Return \/ Finish

Spec == Init /\ [][Next]_vars

---------------------------------------------------------------------------
(* Calls of recolor_palette repeated by one caller                         *)

\* longest list of colours passed to a repeated call
MaxRepeatColors == 2

\* white, red and a dark blue
RepeatColorPool ==
    { <<"#","F","F","F">>, <<"f","0","0">>, <<"#","0","0","0","0","3","3">> }

\* the lists of at most MaxRepeatColors entries, and the lists naming every
\* colour of the pool once
RepeatBatches ==
    SeqsUpTo(RepeatColorPool, MaxRepeatColors)
        \cup {b \in [1..Cardinality(RepeatColorPool) -> RepeatColorPool] :
                 \A j, k \in DOMAIN b : j # k => b[j] # b[k]}

RepeatTargetPool ==
    { <<"#","3","4","9","8","d","b">>, <<"r","e","d">> }

RepeatIntensityPool == {SCALE \div 2}

CallRepeat ==
    CallWith(RepeatBatches, RepeatTargetPool, RepeatIntensityPool)

\* the arguments of the call in progress
Arguments == <<original_colors, target_base, intensity, mode>>

\* the caller keeps the arguments and the outcome of a completed call
Remember ==
    /\ pc = "done"
    /\ earlier = NoCall
    /\ earlier' = [args |-> Arguments, outcome |-> outcome, results |-> results]
    /\ UNCHANGED callVars
    /\ UNCHANGED tokenVars
    /\ UNCHANGED guiVars
    /\ UNCHANGED <<strategies, trial>>

NextRepeat == CallRepeat \/ FilterColors \/ ConvertTarget \/ ComputeLuminances
                 \/ RecolorItem \/ Return \/ Remember \/ Finish

SpecRepeat == Init /\ [][NextRepeat]_vars

---------------------------------------------------------------------------
(* A strategy, or relative_luminance, called on its own between the calls  *)
(* of recolor_palette                                                      *)

StrategyNames == {"KeepHueStrategy", "FullRecolorStrategy", "MixedStrategy"}

\* RGB tuples whose HLS triples are passed to a strategy: white, black, a
\* dark blue, a blue and red
RgbPool ==
    { <<255, 255, 255>>, <<0, 0, 0>>, <<0, 0, 51>>, <<52, 152, 219>>, <<255, 0, 0>> }

HlsPool == {HlsOfRgb(rgb) : rgb \in RgbPool}

\* luminance ratios passed to a strategy: 0.0, 0.5, 0.7, 0.8 and 1.0
RatioPool == {0, SCALE \div 2, Dec(7, 10), Dec(8, 10), SCALE}

\* channel values passed to relative_luminance; 10 is the last channel whose
\* scaled value is at most 0.04045
ChannelPool == {0, 1, 10, 11, 51, 128, 254, 255}

\* strategy.recolor(original_hls, target, luminance_ratio, intensity)
ApplyStrategy ==
    /\ pc = "idle"
    /\ \E s \in StrategyNames, o \in HlsPool, tg \in HlsPool,
          r \in RatioPool, i \in IntensityPool :
          trial' = [kind |-> "recolor", strategy |-> s, original_hls |-> o,
                    target |-> tg, luminance_ratio |-> r, intensity |-> i,
                    raw |-> recolor(s, o, tg, r, i)]
    /\ pc' = "direct"
    /\ UNCHANGED <<original_colors, target_base, intensity, mode, valid_colors,
                   target_hls, luminances, min_lum, max_lum, lum_range, steps,
                   results, outcome>>
    /\ UNCHANGED tokenVars
    /\ UNCHANGED guiVars
    /\ UNCHANGED <<strategies, earlier>>

\* StrategyFactory.get_strategy(mode)
GetStrategy ==
    /\ pc = "idle"
    /\ \E m \in RecolorMode \cup NonModes :
          trial' = [kind |-> "get_strategy", mode |-> m,
                    outcome |-> IF get_strategy_raises(m) THEN "TypeError" ELSE "returned",
                    strategy |-> IF get_strategy_raises(m) THEN "none" ELSE get_strategy(m)]
    /\ pc' = "direct"
    /\ UNCHANGED <<original_colors, target_base, intensity, mode, valid_colors,
                   target_hls, luminances, min_lum, max_lum, lum_range, steps,
                   results, outcome>>
    /\ UNCHANGED tokenVars
    /\ UNCHANGED guiVars
    /\ UNCHANGED <<strategies, earlier>>

\* ColorUtility.relative_luminance(rgb)
MeasureLuminance ==
    /\ pc = "idle"
    /\ \E rgb \in [1..3 -> ChannelPool] :
          trial' = [kind |-> "luminance", rgb |-> rgb,
                    adjusted |-> [j \in 1..3 |-> adjusted[rgb[j]]],
                    lum |-> relative_luminance(rgb)]
    /\ pc' = "direct"
    /\ UNCHANGED <<original_colors, target_base, intensity, mode, valid_colors,
                   target_hls, luminances, min_lum, max_lum, lum_range, steps,
                   results, outcome>>
    /\ UNCHANGED tokenVars
    /\ UNCHANGED guiVars
    /\ UNCHANGED <<strategies, earlier>>

\* the value returned is dropped
Discard ==
    /\ pc = "direct"
    /\ trial' = NoTrial
    /\ pc' = "idle"
    /\ UNCHANGED <<original_colors, target_base, intensity, mode, valid_colors,
                   target_hls, luminances, min_lum, max_lum, lum_range, steps,
                   results, outcome>>
    /\ UNCHANGED tokenVars
    /\ UNCHANGED guiVars
    /\ UNCHANGED <<strategies, earlier>>

NextDirect == Next \/ ApplyStrategy \/ GetStrategy \/ MeasureLuminance \/ Discard

SpecDirect == Init /\ [][NextDirect]_vars

---------------------------------------------------------------------------
(* ColorRecolorApp.process_colors over the two panels, one action per step; *)
(* the two calls of recolor_palette run through the actions above          *)

\* number of entries of each panel (ColorRecolorApp.color_count)
color_count == 2

\* texts typed into the base colour entry: a colour, no colour, and four hex
\* digits
BasePool ==
    { <<"#","3","4","9","8","d","b">>, <<"z","z","z">>, <<"#","a","b","c","d">> }

\* texts typed into an entry of the left panel: blank, white, a dark blue,
\* no colour, and four hex digits
LeftEntryPool ==
    { <<" ">>, <<"#","F","F","F">>, <<"#","0","0","0","0","3","3">>,
      <<"z","z">>, <<"#","a","b","c","d">> }

\* texts typed into an entry of the right panel
RightEntryPool == { <<"#","F","F","F">>, <<"#","a","b","c","d">> }

\* values of mode_var: the one the constructor sets, and a string that is
\* no RecolorMode value
ModeVarPool == {"full_recolor", "bogus"}

\* ColorPaletteFrame.get_colors
get_colors(entries) ==
    SelectSeq([k \in 1..Len(entries) |-> Strip(entries[k])], LAMBDA e : e # <<>>)

\* ColorPaletteFrame._update_preview for one entry, from a preview as
\* create_color_inputs builds it; Tk takes '#' and six hex digits for a bg
\* and refuses '#' and four or eight
update_preview(entry) ==
    LET normalized == normalize_color(Strip(entry))
    IN  IF is_valid_color(normalized) /\ Len(normalized) = 7
        THEN normalized
        ELSE <<"#","f","f","f","f","f","f">>

\* the previews of a panel after its entries were typed
TypedPreviews(entries) == [k \in 1..Len(entries) |-> update_preview(entries[k])]

\* ColorPaletteFrame.update_preview_colors: preview i takes colors[i]
update_preview_colors(previews, colors) ==
    [i \in 1..Len(previews) |-> IF i <= Len(colors) THEN colors[i] ELSE previews[i]]

\* [r.new_color for r in results]
NewColors(res) == [k \in 1..Len(res) |-> res[k].new_color]

\* the application with its fields filled in, before the button is pressed
InitApp ==
    /\ InitCall
    /\ InitToken
    /\ InitShared
    /\ gpc = "ready"
    /\ base_color_entry \in BasePool
    /\ mode_var \in ModeVarPool
    /\ intensity_var = SCALE
    /\ left_entries \in [1..color_count -> LeftEntryPool]
    /\ right_entries \in [1..color_count -> RightEntryPool]
    /\ left_previews = TypedPreviews(left_entries)
    /\ right_previews = TypedPreviews(right_entries)
    /\ result_text = "empty"
    /\ process_btn = ButtonAtRest
    /\ normalized_base = <<>>
    /\ original_text = ""
    /\ original_bg = ""
    /\ left_colors = <<>>
    /\ right_colors = <<>>
    /\ left_results = <<>>
    /\ right_results = <<>>
    /\ pending = "none"

\* the validation of the base colour, and the button put to its busy look
ValidateBase ==
    /\ gpc = "ready"
    /\ normalized_base' = normalize_color(base_color_entry)
    /\ IF ~is_valid_color(normalized_base')
       THEN /\ result_text' = "invalid base"
            /\ gpc' = "returned"
            /\ UNCHANGED <<process_btn, original_text, original_bg>>
       ELSE /\ original_text' = process_btn.text
            /\ original_bg' = process_btn.bg
            /\ process_btn' = ButtonBusy
            /\ gpc' = "try"
            /\ UNCHANGED result_text
    /\ UNCHANGED <<base_color_entry, mode_var, intensity_var, left_entries,
                   right_entries, left_previews, right_previews, left_colors,
                   right_colors, left_results, right_results, pending>>
    /\ UNCHANGED <<callVars, tokenVars, sharedVars>>

\* get_colors of both panels, intensity_var.get() and RecolorMode(mode_var.get())
ReadInputs ==
    /\ gpc = "try"
    /\ left_colors' = get_colors(left_entries)
    /\ right_colors' = get_colors(right_entries)
    /\ IF mode_var \in RecolorMode
       THEN /\ gpc' = "call left"
            /\ UNCHANGED pending
       ELSE /\ gpc' = "except"
            /\ pending' = "ValueError"
    /\ UNCHANGED <<base_color_entry, mode_var, intensity_var, left_entries,
                   right_entries, left_previews, right_previews, result_text,
                   process_btn, normalized_base, original_text, original_bg,
                   left_results, right_results>>
    /\ UNCHANGED <<callVars, tokenVars, sharedVars>>

\* recolor_palette(left_colors, normalized_base, intensity, mode) is entered
CallLeft ==
    /\ gpc = "call left"
    /\ EnterCall(left_colors, normalized_base, intensity_var, mode_var)
    /\ gpc' = "in left"
    /\ UNCHANGED <<base_color_entry, mode_var, intensity_var, left_entries,
                   right_entries, left_previews, right_previews, result_text,
                   process_btn, normalized_base, original_text, original_bg,
                   left_colors, right_colors, left_results, right_results, pending>>
    /\ UNCHANGED <<tokenVars, sharedVars>>

\* left_results = the list returned, or the exception leaves the try body
TakeLeft ==
    /\ gpc = "in left"
    /\ LeaveCall
    /\ IF outcome = "returned"
       THEN /\ left_results' = results
            /\ gpc' = "call right"
            /\ UNCHANGED pending
       ELSE /\ pending' = outcome
            /\ gpc' = "except"
            /\ UNCHANGED left_results
    /\ UNCHANGED <<base_color_entry, mode_var, intensity_var, left_entries,
                   right_entries, left_previews, right_previews, result_text,
                   process_btn, normalized_base, original_text, original_bg,
                   left_colors, right_colors, right_results>>
    /\ UNCHANGED <<tokenVars, sharedVars>>

\* recolor_palette(right_colors, normalized_base, intensity, mode) is entered
CallRight ==
    /\ gpc = "call right"
    /\ EnterCall(right_colors, normalized_base, intensity_var, mode_var)
    /\ gpc' = "in right"
    /\ UNCHANGED <<base_color_entry, mode_var, intensity_var, left_entries,
                   right_entries, left_previews, right_previews, result_text,
                   process_btn, normalized_base, original_text, original_bg,
                   left_colors, right_colors, left_results, right_results, pending>>
    /\ UNCHANGED <<tokenVars, sharedVars>>

\* right_results = the list returned, or the exception leaves the try body
TakeRight ==
    /\ gpc = "in right"
    /\ LeaveCall
    /\ IF outcome = "returned"
       THEN /\ right_results' = results
            /\ gpc' = "display"
            /\ UNCHANGED pending
       ELSE /\ pending' = outcome
            /\ gpc' = "except"
            /\ UNCHANGED right_results
    /\ UNCHANGED <<base_color_entry, mode_var, intensity_var, left_entries,
                   right_entries, left_previews, right_previews, result_text,
                   process_btn, normalized_base, original_text, original_bg,
                   left_colors, right_colors, left_results>>
    /\ UNCHANGED <<tokenVars, sharedVars>>

\* self._display_results(left_results, right_results)
DisplayResults ==
    /\ gpc = "display"
    /\ result_text' = IF left_results = <<>> /\ right_results = <<>>
                      THEN "no data" ELSE "results"
    /\ gpc' = "preview left"
    /\ UNCHANGED <<base_color_entry, mode_var, intensity_var, left_entries,
                   right_entries, left_previews, right_previews, process_btn,
                   normalized_base, original_text, original_bg, left_colors,
                   right_colors, left_results, right_results, pending>>
    /\ UNCHANGED <<callVars, tokenVars, sharedVars>>

\* self.left_panel.update_preview_colors(left_new_colors)
UpdateLeftPreviews ==
    /\ gpc = "preview left"
    /\ left_previews' = update_preview_colors(left_previews, NewColors(left_results))
    /\ gpc' = "preview right"
    /\ UNCHANGED <<base_color_entry, mode_var, intensity_var, left_entries,
                   right_entries, right_previews, result_text, process_btn,
                   normalized_base, original_text, original_bg, left_colors,
                   right_colors, left_results, right_results, pending>>
    /\ UNCHANGED <<callVars, tokenVars, sharedVars>>

\* self.right_panel.update_preview_colors(right_new_colors)
UpdateRightPreviews ==
    /\ gpc = "preview right"
    /\ right_previews' = update_preview_colors(right_previews, NewColors(right_results))
    /\ gpc' = "finally"
    /\ UNCHANGED <<base_color_entry, mode_var, intensity_var, left_entries,
                   right_entries, left_previews, result_text, process_btn,
                   normalized_base, original_text, original_bg, left_colors,
                   right_colors, left_results, right_results, pending>>
    /\ UNCHANGED <<callVars, tokenVars, sharedVars>>

\* `except ValueError`: any other exception goes on to the finally clause
\* and out of process_colors
ExceptValueErrorOnly ==
    /\ gpc = "except"
    /\ IF pending = "ValueError"
       THEN /\ result_text' = "error"
            /\ pending' = "none"
       ELSE UNCHANGED <<result_text, pending>>
    /\ gpc' = "finally"
    /\ UNCHANGED <<base_color_entry, mode_var, intensity_var, left_entries,
                   right_entries, left_previews, right_previews, process_btn,
                   normalized_base, original_text, original_bg, left_colors,
                   right_colors, left_results, right_results>>
    /\ UNCHANGED <<callVars, tokenVars, sharedVars>>

\* `except Exception as e`: ValueError and TypeError are both caught
Except ==
    /\ gpc = "except"
    /\ result_text' = "error"
    /\ pending' = "none"
    /\ gpc' = "finally"
    /\ UNCHANGED <<base_color_entry, mode_var, intensity_var, left_entries,
                   right_entries, left_previews, right_previews, process_btn,
                   normalized_base, original_text, original_bg, left_colors,
                   right_colors, left_results, right_results>>
    /\ UNCHANGED <<callVars, tokenVars, sharedVars>>

\* the button restored at the end of the try body only, not after the
\* handler
FinallyAfterSuccessOnly ==
    /\ gpc = "finally"
    /\ process_btn' = IF result_text = "error" THEN process_btn
                      ELSE [text |-> original_text, bg |-> original_bg,
                            state |-> "normal"]
    /\ gpc' = "returned"
    /\ UNCHANGED <<base_color_entry, mode_var, intensity_var, left_entries,
                   right_entries, left_previews, right_previews, result_text,
                   normalized_base, original_text, original_bg, left_colors,
                   right_colors, left_results, right_results, pending>>
    /\ UNCHANGED <<callVars, tokenVars, sharedVars>>

\* finally: process_btn.config(text=original_text, bg=original_bg, state='normal')
Finally ==
    /\ gpc = "finally"
    /\ process_btn' = [text |-> original_text, bg |-> original_bg, state |-> "normal"]
    /\ gpc' = "returned"
    /\ UNCHANGED <<base_color_entry, mode_var, intensity_var, left_entries,
                   right_entries, left_previews, right_previews, result_text,
                   normalized_base, original_text, original_bg, left_colors,
                   right_colors, left_results, right_results, pending>>
    /\ UNCHANGED <<callVars, tokenVars, sharedVars>>

NextGui == ValidateBase \/ ReadInputs \/ CallLeft \/ TakeLeft \/ CallRight
              \/ TakeRight \/ FilterColors \/ ConvertTarget \/ ComputeLuminances
              \/ RecolorItem \/ Return \/ DisplayResults \/ UpdateLeftPreviews
              \/ UpdateRightPreviews \/ Except \/ Finally

SpecGui == InitApp /\ [][NextGui]_vars

---------------------------------------------------------------------------
(* ColorUtility applied to one token                                       *)

InitNorm ==
    /\ InitCall
    /\ InitShared
    /\ InitGui
    /\ token \in TokenPool
    /\ npc = "start"
    /\ norm1 = <<>>
    /\ norm2 = <<>>
    /\ valid = FALSE

\* normalized = normalize_color(token)
NormalizeToken ==
    /\ npc = "start"
    /\ norm1' = normalize_color(token)
    /\ npc' = "normalized"
    /\ UNCHANGED <<token, norm2, valid>>
    /\ UNCHANGED callVars
    /\ UNCHANGED sharedVars
    /\ UNCHANGED guiVars

\* normalize_color applied to its own result
NormalizeAgain ==
    /\ npc = "normalized"
    /\ norm2' = normalize_color(norm1)
    /\ npc' = "renormalized"
    /\ UNCHANGED <<token, norm1, valid>>
    /\ UNCHANGED callVars
    /\ UNCHANGED sharedVars
    /\ UNCHANGED guiVars

\* is_valid_color(token)
ValidateToken ==
    /\ npc = "renormalized"
    /\ valid' = is_valid_color(token)
    /\ npc' = "validated"
    /\ UNCHANGED <<token, norm1, norm2>>
    /\ UNCHANGED callVars
    /\ UNCHANGED sharedVars
    /\ UNCHANGED guiVars

NextNorm == NormalizeToken \/ NormalizeAgain \/ ValidateToken

SpecNorm == InitNorm /\ [][NextNorm]_vars

---------------------------------------------------------------------------
(* Properties                                                              *)

\* '#' followed by exactly six hex digits
IsSixHex(s) == Len(s) = 7 /\ s[1] = "#" /\ \A k \in 2..7 : s[k] \in HexDigits

\* the call has returned a result list
Returned == pc = "done" /\ outcome = "returned"

\* the call is inside or past the loop
InLoop == pc = "loop" \/ Returned

\* the entries of colors for which is_valid_color holds, normalised, in order
RECURSIVE ValidNormalized(_)
ValidNormalized(colors) ==
    IF colors = <<>> THEN <<>>
    ELSE (IF is_valid_color(Head(colors)) THEN <<normalize_color(Head(colors))>> ELSE <<>>)
            \o ValidNormalized(Tail(colors))

\* the luminances of the valid entries of the call's colors
SurvivorLuminances ==
    {relative_luminance(getrgb(normalize_color(original_colors[k]))) :
        k \in {j \in 1..Len(original_colors) : is_valid_color(original_colors[j])}}

\* lo and hi are the least and the greatest element of the set L
AreExtremesOf(lo, hi, L) ==
    /\ lo \in L
    /\ hi \in L
    /\ \A x \in L : lo <= x /\ x <= hi

\* C1: normalize_color is idempotent: normalising the result of a
\* normalisation gives that result again, for every token.
C1_NormalizeIdempotent ==
    npc \in {"renormalized", "validated"} => norm2 = norm1

\* a token with '#' in second position has been normalised twice and its
\* normal form differs from the token
C1_Witness ==
    /\ npc = "renormalized"
    /\ Len(token) >= 3
    /\ token[2] = "#"
    /\ norm1 # <<>>
    /\ norm1 # token

\* C2: is_valid_color(x) holds exactly when normalize_color(x) is '#' followed
\* by exactly six hex digits.
C2_ValidIffSixHex ==
    npc = "validated" => (valid <=> IsSixHex(norm1))

\* C3: a call whose targetBase is not a valid colour fails, whatever colors
\* is: it never returns a result list.
C3_InvalidBaseFails ==
    (pc = "done" /\ ~is_valid_color(target_base)) => outcome # "returned"

\* C4: a call whose targetBase is a valid colour returns a result list
\* without raising, whatever colors, intensity and mode are.
C4_ValidBaseReturns ==
    (pc = "done" /\ is_valid_color(target_base)) => outcome = "returned"

C6_NoValidEntryReturnsEmpty ==
    (/\ pc = "done"
     /\ is_valid_color(target_base)
     /\ \A k \in 1..Len(original_colors) : ~is_valid_color(original_colors[k]))
        => (outcome = "returned" /\ results = <<>>)

\* a call with a valid target in bare form and a non-empty list of invalid
\* entries is over
C6_Witness ==
    /\ pc = "done"
    /\ is_valid_color(target_base)
    /\ target_base[1] # "#"
    /\ original_colors # <<>>
    /\ \A k \in 1..Len(original_colors) : ~is_valid_color(original_colors[k])

\* C7: when all surviving colours have the same luminance, the ratio passed
\* to the strategy is 0.5 for every item.
C7_EqualLuminanceRatioHalf ==
    (InLoop /\ max_lum = min_lum) =>
        \A k \in 1..Len(steps) : steps[k].ratio = SCALE \div 2

\* C8: in a batch with maxLum # minLum every ratio is
\* (lum - minLum) / (maxLum - minLum): the divisor is not zero, the ratio is
\* in [0, 1], 0 for an item of least and 1 for an item of greatest luminance,
\* and minLum and maxLum are the extremes over the valid entries only.
C8_RatioWithinBatchRange ==
    (InLoop /\ max_lum # min_lum) =>
        /\ AreExtremesOf(min_lum, max_lum, SurvivorLuminances)
        /\ \A k \in 1..Len(steps) :
              /\ max_lum - min_lum # 0
              /\ steps[k].ratio = FDiv(steps[k].orig_lum - min_lum, max_lum - min_lum)
              /\ 0 <= steps[k].ratio /\ steps[k].ratio <= SCALE
              /\ steps[k].orig_lum = min_lum => steps[k].ratio = 0
              /\ steps[k].orig_lum = max_lum => steps[k].ratio = SCALE

\* a batch of three colours has been processed and one of them got a ratio
\* strictly between 0 and 1
C8_Witness ==
    /\ Returned
    /\ max_lum # min_lum
    /\ Len(steps) = 3
    /\ \E k \in 1..3 : 0 < steps[k].ratio /\ steps[k].ratio < SCALE

\* C9: the HLS triple converted to the output colour has hue in [0, 1],
\* saturation in [0.1, 1] and lightness in [0.1, 0.95], for every result, mode
\* and intensity, whatever the strategy returned.
C9_ClampedInRange ==
    InLoop =>
        /\ Len(steps) = Len(results)
        /\ \A k \in 1..Len(steps) :
              /\ 0 <= steps[k].clamped[1] /\ steps[k].clamped[1] <= SCALE
              /\ Dec(1, 10) <= steps[k].clamped[2] /\ steps[k].clamped[2] <= Dec(95, 100)
              /\ Dec(1, 10) <= steps[k].clamped[3] /\ steps[k].clamped[3] <= SCALE
              /\ results[k].new_color =
                    rgb_to_hex(RoundRgb(hls_to_rgb(steps[k].clamped[1],
                                                   steps[k].clamped[2],
                                                   steps[k].clamped[3])))

\* a strategy returned a lightness below 0.1 for one item and one above 0.95
\* for another, with a saturation below 0.1
C9_Witness ==
    /\ Returned
    /\ \E k \in 1..Len(steps) :
          steps[k].raw[2] < Dec(1, 10) /\ steps[k].raw[3] < Dec(1, 10)
    /\ \E k \in 1..Len(steps) : steps[k].raw[2] > Dec(95, 100)

\* C10 as stated: for any two results of one call, if the luminance of a's
\* original is <= that of b's original, then a's new luminance is <= b's.
C10_LuminanceOrderPreserved ==
    Returned =>
        \A a, b \in 1..Len(results) :
            steps[a].orig_lum <= steps[b].orig_lum
                => results[a].luminance <= results[b].luminance

\* C10 amended: at intensity 1, for any two results of one call, if the
\* luminance of a's original is <= that of b's original, then the lightness of
\* the clamped HLS triple of a is <= that of b, in every mode.
C10_LightnessOrderAtFullIntensity ==
    (InLoop /\ intensity = SCALE) =>
        \A a, b \in 1..Len(steps) :
            steps[a].orig_lum <= steps[b].orig_lum
                => steps[a].clamped[2] <= steps[b].clamped[2]

\* a call at intensity 1 has returned for a batch with two originals of
\* different luminance, the darker of which got the smaller lightness
C10_Witness ==
    /\ Returned
    /\ intensity = SCALE
    /\ \E a, b \in 1..Len(steps) :
          /\ steps[a].orig_lum < steps[b].orig_lum
          /\ steps[a].clamped[2] < steps[b].clamped[2]

---------------------------------------------------------------------------
(* Claims C11 - C20                                                        *)

\* the token after trimming, lower-casing, look-alike replacement and removal
\* of every character outside [0-9a-f#]
Cleaned(tok) == RemoveInvalid(ReplaceFrom(Lower(Strip(tok)), 1))

\* C11: with s the cleaned token, normalize_color returns '#' and the three
\* characters after '#' doubled when s is '#' and three characters, '#' and
\* each character doubled when s is three characters without a leading '#',
\* '#' and s when s is six characters without a leading '#', and s itself in
\* every other case
C11_ShapeDispatch ==
    npc # "start" =>
        LET s == Cleaned(token)
            hash == s # <<>> /\ s[1] = "#"
        IN  /\ (hash /\ Len(s) = 4) =>
                norm1 = <<"#", s[2], s[2], s[3], s[3], s[4], s[4]>>
            /\ (~hash /\ Len(s) = 3) =>
                norm1 = <<"#", s[1], s[1], s[2], s[2], s[3], s[3]>>
            /\ (~hash /\ Len(s) = 6) => norm1 = <<"#">> \o s
            /\ (~(hash /\ Len(s) = 4) /\ ~(~hash /\ Len(s) \in {3, 6})) => norm1 = s

\* a bare three-character token that lost a character to the cleaning has
\* been normalised
C11_Witness ==
    /\ npc = "normalized"
    /\ Len(token) = 4
    /\ Len(Cleaned(token)) = 3
    /\ Cleaned(token)[1] # "#"
    /\ Len(norm1) = 7

\* every channel of ch is the integer of 0..255 nearest to 255 times the
\* channel of rgb
AreNearestChannels(rgb, ch) ==
    \A j \in 1..3 :
        /\ ch[j] \in 0..255
        /\ 2 * (rgb[j] * 255 - ch[j] * SCALE) <= SCALE
        /\ 2 * (ch[j] * SCALE - rgb[j] * 255) <= SCALE

\* what C12 says of one result built from the clamped triple c
IsCanonicalResult(r, c) ==
    /\ IsSixHex(r.new_color)
    /\ ~getrgb_raises(r.new_color)
    /\ Len(getrgb(r.new_color)) = 3
    /\ AreNearestChannels(hls_to_rgb(c[1], c[2], c[3]), getrgb(r.new_color))
    /\ r.luminance = relative_luminance(getrgb(r.new_color))
    /\ is_valid_color(r.new_color)
    /\ normalize_color(r.new_color) = r.new_color

\* C12: every new_color is '#' and six lower-case hex digits whose channels
\* are the clamped HLS triple converted to RGB and rounded to the nearest
\* integer of 0..255, the luminance is the relative luminance of those
\* channels, new_color is a valid colour and normalises to itself
C12_NewColorCanonical ==
    InLoop => \A k \in 1..Len(results) : IsCanonicalResult(results[k], steps[k].clamped)

\* a call has returned an output colour other than black, white and the
\* original
C12_Witness ==
    /\ Returned
    /\ \E k \in 1..Len(results) :
          /\ results[k].new_color # results[k].original
          /\ results[k].luminance > 0
          /\ results[k].luminance < SCALE

\* C13: the original field of every result of recolor_palette is exactly
\* seven characters, '#' followed by six lower-case hex digits
C13_OriginalIsSevenChars ==
    InLoop => \A k \in 1..Len(results) : IsSixHex(results[k].original)

\* a call has returned results for entries typed in a short form
C13_Witness ==
    /\ Returned
    /\ Len(results) > 1
    /\ \A k \in 1..Len(original_colors) : Len(original_colors[k]) < 7

WithinOneUnit(a, b) == a - b <= 1 /\ b - a <= 1

\* what C15 says of the triple raw returned for original o, target tg,
\* ratio r and intensity i; the two products of the hue blend each round
\* toward zero, so the blended hue is the original hue or one unit below it
IsKeepHueBlend(o, tg, r, i, raw) ==
    /\ WithinOneUnit(raw[1], o[1])
    /\ i \in {0, SCALE} => raw[1] = o[1]
    /\ raw[2] = FMul(o[2], SCALE - i) + FMul(Dec(2, 10) + FMul(Dec(7, 10), r), i)
    /\ raw[3] = FMul(o[3], SCALE - i)
                   + FMul(FMul(Dec(7, 10), tg[3]) + FMul(Dec(3, 10), o[3]), i)

\* C15: in KEEP_HUE mode the raw hue is the original hue at every intensity,
\* and the raw lightness and saturation are orig*(1-i) + computed*i with the
\* computed lightness 0.2 + 0.7*ratio and the computed saturation
\* 0.7*targetSat + 0.3*origSat, at intensity 1 too
C15_KeepHueFormula ==
    /\ (InLoop /\ mode = "keep_hue") =>
          \A k \in 1..Len(steps) :
              IsKeepHueBlend(steps[k].orig_hls, target_hls, steps[k].ratio,
                             intensity, steps[k].raw)
    /\ (trial.kind = "recolor" /\ trial.strategy = "KeepHueStrategy") =>
          IsKeepHueBlend(trial.original_hls, trial.target, trial.luminance_ratio,
                         trial.intensity, trial.raw)

\* KeepHueStrategy has been applied at intensity 1 to a coloured original
\* and a coloured target of another hue
C15_Witness ==
    /\ trial.kind = "recolor"
    /\ trial.strategy = "KeepHueStrategy"
    /\ trial.intensity = SCALE
    /\ trial.original_hls[3] > 0
    /\ trial.target[3] > 0
    /\ trial.target[1] # trial.original_hls[1]
    /\ trial.luminance_ratio = SCALE \div 2

\* what C16 says of the triple raw FullRecolorStrategy returns at intensity
\* 1 for target tg and ratio r
IsFullRecolorAtOne(tg, r, raw) ==
    /\ raw[1] = tg[1]
    /\ r > Dec(7, 10) => raw[2] = Dec(5, 10) + FMul(Dec(4, 10), r)
    /\ r <= Dec(7, 10) => raw[2] = Dec(2, 10) + FMul(Dec(5, 10), r)
    /\ r = Dec(7, 10) => raw[2] = Dec(55, 100)

White == <<"#","f","f","f","f","f","f">>

Black == <<"#","0","0","0","0","0","0">>

Red == <<"#","f","f","0","0","0","0">>

\* C16: at intensity 1 FullRecolorStrategy returns the target hue and the
\* lightness 0.5 + 0.4*ratio when ratio > 0.7, 0.2 + 0.5*ratio otherwise
\* (ratio 0.7 included); for the batch white, black with target '#ff0000'
\* the ratios are 1 and 0, the raw lightnesses 0.9 and 0.2 and the two
\* output colours differ
C16_FullRecolorBranches ==
    /\ (InLoop /\ mode = "full_recolor" /\ intensity = SCALE) =>
          \A k \in 1..Len(steps) :
              IsFullRecolorAtOne(target_hls, steps[k].ratio, steps[k].raw)
    /\ (trial.kind = "recolor" /\ trial.strategy = "FullRecolorStrategy"
           /\ trial.intensity = SCALE) =>
          IsFullRecolorAtOne(trial.target, trial.luminance_ratio, trial.raw)
    /\ (Returned /\ mode = "full_recolor" /\ intensity = SCALE
           /\ valid_colors = <<White, Black>> /\ target_base = Red) =>
          /\ Len(results) = 2
          /\ steps[1].ratio = SCALE
          /\ steps[2].ratio = 0
          /\ steps[1].raw[2] = Dec(9, 10)
          /\ steps[2].raw[2] = Dec(2, 10)
          /\ results[1].new_color # results[2].new_color

\* the batch white, black has been recoloured towards '#ff0000' in
\* FULL_RECOLOR mode at intensity 1
C16_Witness ==
    /\ Returned
    /\ mode = "full_recolor"
    /\ intensity = SCALE
    /\ valid_colors = <<White, Black>>
    /\ target_base = Red
    /\ Len(results) = 2

\* what C17 says of the triple raw MixedStrategy returns for original o,
\* target tg, ratio r and intensity i
IsSingleInterpolation(o, tg, r, i, raw) ==
    /\ raw[1] = FMul(o[1], SCALE - i) + FMul(tg[1], i)
    /\ raw[2] = FMul(o[2], SCALE - i) + FMul(Dec(3, 10) + FMul(Dec(6, 10), r), i)
    /\ raw[3] = FMul(o[3], SCALE - i) + FMul(tg[3], i)
    /\ i = SCALE => raw = <<tg[1], Dec(3, 10) + FMul(Dec(6, 10), r), tg[3]>>

\* C17: in MIXED mode each raw component is one linear interpolation with
\* weight intensity, hue between the original and the target hue, lightness
\* between the original lightness and 0.3 + 0.6*ratio, saturation between
\* the original and the target saturation, with no second blend; at
\* intensity 1 the raw triple is (targetHue, 0.3 + 0.6*ratio, targetSat)
C17_MixedSingleInterpolation ==
    /\ (InLoop /\ mode = "mixed") =>
          \A k \in 1..Len(steps) :
              IsSingleInterpolation(steps[k].orig_hls, target_hls, steps[k].ratio,
                                    intensity, steps[k].raw)
    /\ (trial.kind = "recolor" /\ trial.strategy = "MixedStrategy") =>
          IsSingleInterpolation(trial.original_hls, trial.target,
                                trial.luminance_ratio, trial.intensity, trial.raw)

\* MixedStrategy has been applied at intensity 0.5 to an original and a
\* target that differ in hue, lightness and saturation
C17_Witness ==
    /\ trial.kind = "recolor"
    /\ trial.strategy = "MixedStrategy"
    /\ trial.intensity = SCALE \div 2
    /\ \A j \in 1..3 : trial.original_hls[j] # trial.target[j]
    /\ \A j \in 1..3 : trial.raw[j] # trial.original_hls[j]

\* the luminances of the original colours of a result list
OriginalLuminances(res) ==
    {relative_luminance(getrgb(res[k].original)) : k \in 1..Len(res)}

\* lo and hi are the smallest and the largest element of the set L
AreBoundsOf(lo, hi, L) == lo \in L /\ hi \in L /\ \A x \in L : lo <= x /\ x <= hi

\* the result lists res and old come from batches of the same smallest and
\* largest luminance
HaveSameRange(res, old) ==
    \E lo, hi \in OriginalLuminances(old) :
        /\ AreBoundsOf(lo, hi, OriginalLuminances(old))
        /\ AreBoundsOf(lo, hi, OriginalLuminances(res))

\* every colour that res and old both hold has the same result in both
AgreeOnSharedColors(res, old) ==
    \A a \in 1..Len(res), b \in 1..Len(old) :
        res[a].original = old[b].original => res[a] = old[b]

\* C18: the result of an entry depends on its batch only through the
\* smallest and the largest luminance: two calls with the same target,
\* intensity and mode whose batches have the same luminance range (one a
\* permutation of the other, or one with an entry added inside the range)
\* give every colour they share the same result, and two entries of one
\* call that normalise to the same colour get the same result
C18_ResultIndependentOfPosition ==
    /\ InLoop => AgreeOnSharedColors(results, results)
    /\ (/\ Returned
        /\ results # <<>>
        /\ earlier.outcome = "returned"
        /\ earlier.results # <<>>
        /\ earlier.args[2] = target_base
        /\ earlier.args[3] = intensity
        /\ earlier.args[4] = mode
        /\ HaveSameRange(results, earlier.results)) =>
            AgreeOnSharedColors(results, earlier.results)

\* a three-entry batch has been recoloured after the two-entry batch of its
\* extremes in the other order: the third entry lies strictly inside the
\* range
C18_Witness ==
    /\ Returned
    /\ Len(results) = 3
    /\ earlier.outcome = "returned"
    /\ Len(earlier.results) = 2
    /\ Tail(earlier.args) = Tail(Arguments)
    /\ HaveSameRange(results, earlier.results)
    /\ results[1].original = earlier.results[2].original
    /\ results[3].original = earlier.results[1].original
    /\ results[2].original \notin {results[1].original, results[3].original}

\* the 8-bit channel c, divided by 255, is at most 0.04045
IsInLinearRange(c) == c * 100000 <= 4045 * 255

\* what C19 says of the adjusted value a of the 8-bit channel c
IsAdjustedChannel(c, a) ==
    /\ IsInLinearRange(c) => a = (Unit(c) * 100) \div 1292
    /\ ~IsInLinearRange(c) =>
          a = Pow24(FDiv(Unit(c) + Dec(55, 1000), Dec(1055, 1000)))
    /\ a \in 0..SCALE

\* C19: relative_luminance is 0.0 for (0, 0, 0), 1.0 for (255, 255, 255),
\* lies in [0, 1] for every input and does not decrease when one channel
\* grows; a channel takes the linear branch c / 12.92 exactly when its
\* scaled value is at most 0.04045
C19_LuminanceRangeMonotone ==
    trial.kind = "luminance" =>
        /\ trial.rgb = <<0, 0, 0>> => trial.lum = 0
        /\ trial.rgb = <<255, 255, 255>> => trial.lum = SCALE
        /\ trial.lum \in 0..SCALE
        /\ \A j \in 1..3 : IsAdjustedChannel(trial.rgb[j], trial.adjusted[j])
        /\ \A j \in 1..3 : \A c \in (trial.rgb[j] + 1)..255 :
              trial.lum <= relative_luminance([trial.rgb EXCEPT ![j] = c])

\* relative_luminance has been applied to a colour with one channel on each
\* side of the threshold and one channel in the upper half
C19_Witness ==
    /\ trial.kind = "luminance"
    /\ trial.rgb = <<10, 11, 128>>
    /\ trial.lum > 0
    /\ trial.lum < SCALE

\* the upper-case form of the table letters the tokens use
UpperCyrillic(c) ==
    CASE c = "U+0430" -> "U+0410" [] c = "U+0432" -> "U+0412"
      [] c = "U+0441" -> "U+0421" [] c = "U+043A" -> "U+041A"
      [] c = "U+044F" -> "U+042F" [] c = "U+044C" -> "U+042C"
      [] OTHER -> c

\* the table entries whose letter is c, in lower or upper case
EntriesFor(c) ==
    {k \in 1..Len(CYRILLIC_TO_LATIN) :
        c \in {CYRILLIC_TO_LATIN[k][1], UpperCyrillic(CYRILLIC_TO_LATIN[k][1])}}

\* the Latin entry of a table letter; any other character unchanged
LatinOf(c) ==
    IF EntriesFor(c) = {} THEN <<c>>
    ELSE CYRILLIC_TO_LATIN[CHOOSE k \in EntriesFor(c) : TRUE][2]

\* the token with every table letter replaced by its Latin entry
RECURSIVE Latinized(_)
Latinized(tok) ==
    IF tok = <<>> THEN <<>> ELSE LatinOf(Head(tok)) \o Latinized(Tail(tok))

\* the token with every table letter replaced by the hex digits of its
\* Latin entry
RECURSIVE LatinizedHexOnly(_)
LatinizedHexOnly(tok) ==
    IF tok = <<>> THEN <<>>
    ELSE (IF EntriesFor(Head(tok)) = {} THEN <<Head(tok)>>
          ELSE SelectSeq(LatinOf(Head(tok)), LAMBDA c : c \in HexDigits))
         \o LatinizedHexOnly(Tail(tok))

\* the replacement loop with the table entries applied from the last to the
\* first
RECURSIVE ReplaceDownFrom(_, _)
ReplaceDownFrom(s, k) ==
    IF k = 0 THEN s
    ELSE ReplaceDownFrom(Replace(s, CYRILLIC_TO_LATIN[k][1], CYRILLIC_TO_LATIN[k][2]),
                         k - 1)

\* C20: normalize_color gives a token the result of the same token with
\* every table letter, upper or lower case, replaced by its Latin entry
\* ('#' and Cyrillic A A Ve Ve Es Es gives '#aabbcc'); table letters whose
\* entry is empty or has no hex digit contribute nothing; and the order in
\* which the table entries are applied does not change the result
C20_LookalikesAsLatin ==
    npc # "start" =>
        /\ norm1 = normalize_color(Latinized(token))
        /\ norm1 = normalize_color(LatinizedHexOnly(token))
        /\ norm1 = ExpandShape(RemoveInvalid(
                       ReplaceDownFrom(Lower(Strip(token)), Len(CYRILLIC_TO_LATIN))))
        /\ token = <<"#", "U+0410", "U+0410", "U+0412", "U+0412", "U+0421", "U+0421">>
              => norm1 = <<"#","a","a","b","b","c","c">>

\* a token of upper-case and lower-case table letters, some of them mapped
\* to letters that are no hex digits, has been normalised to a colour
C20_Witness ==
    /\ npc = "normalized"
    /\ token = <<"U+043A", "a", "U+042C", "b", "U+041A", "c">>
    /\ norm1 = <<"#","a","a","b","b","c","c">>

---------------------------------------------------------------------------
(* Claims C21 - C26                                                        *)

\* the HLS triple of the normalised colour c with the saturation raised to
\* at least 0.1 and the lightness forced into [0.1, 0.95]
ClampedOriginal(c) ==
    LET o == HlsOfRgb(getrgb(c))
    IN  <<o[1], Max2(Dec(1, 10), Min2(o[2], Dec(95, 100))), Max2(Dec(1, 10), o[3])>>

\* the colour of the HLS triple c, as recolor_palette writes it
HexOfHls(c) == rgb_to_hex(RoundRgb(hls_to_rgb(c[1], c[2], c[3])))

\* C25: with intensity 0 every strategy returns the original HLS triple
\* whatever the target and the ratio, so every output colour of
\* recolor_palette is the original colour with only the clamp applied,
\* whatever the target and the mode
C25_ZeroIntensityKeepsOriginal ==
    /\ (trial.kind = "recolor" /\ trial.intensity = 0) =>
          trial.raw = trial.original_hls
    /\ (InLoop /\ intensity = 0) =>
          \A k \in 1..Len(results) :
              /\ steps[k].raw = HlsOfRgb(getrgb(results[k].original))
              /\ results[k].new_color = HexOfHls(ClampedOriginal(results[k].original))

\* a call at intensity 0 has returned a colour that the clamp changed
C25_Witness ==
    /\ Returned
    /\ intensity = 0
    /\ mode = "keep_hue"
    /\ \E k \in 1..Len(results) : results[k].new_color # results[k].original
    /\ \E k \in 1..Len(results) : results[k].new_color = results[k].original

\* get_strategy has returned the strategy of the mode it was given, or the
\* FullRecolor strategy for an argument that is no mode
ReturnsOwnOrDefault ==
    /\ trial.outcome = "returned"
    /\ trial.mode = "keep_hue" => trial.strategy = "KeepHueStrategy"
    /\ trial.mode = "full_recolor" => trial.strategy = "FullRecolorStrategy"
    /\ trial.mode = "mixed" => trial.strategy = "MixedStrategy"
    /\ trial.mode \notin RecolorMode => trial.strategy = "FullRecolorStrategy"
    /\ trial.mode \in RecolorMode => trial.strategy = StrategyTable[trial.mode]

\* C26 as stated: get_strategy returns for each of the three modes its own
\* strategy, the same object on every call, and the FullRecolor strategy for
\* any argument that is not one of the three modes, never failing
C26_AnyArgumentReturns ==
    trial.kind = "get_strategy" => ReturnsOwnOrDefault

\* C26 amended: the same, for every argument that can be hashed
C26_HashableArgumentReturns ==
    (trial.kind = "get_strategy" /\ trial.mode # "[]") => ReturnsOwnOrDefault

\* get_strategy has been given the str 'keep_hue', which is no member of
\* RecolorMode, and has returned the FullRecolor strategy
C26_Witness ==
    /\ trial.kind = "get_strategy"
    /\ trial.mode = "'keep_hue'"
    /\ trial.strategy = "FullRecolorStrategy"

\* the process button is as the constructor made it, and enabled
ButtonUntouched == process_btn = ButtonAtRest

\* no preview of either panel differs from what typing the entries left
PreviewsUntouched ==
    /\ left_previews = TypedPreviews(left_entries)
    /\ right_previews = TypedPreviews(right_entries)

\* C21: when the base colour entry does not normalise to '#' and six hex
\* digits, process_colors goes from its start straight to its return: the
\* result text then holds the invalid-base-colour error, recolor_palette is
\* never entered, no preview changes and the button is never disabled.
C21_InvalidBaseStopsAtOnce ==
    ~IsSixHex(normalize_color(base_color_entry)) =>
        /\ gpc \in {"ready", "returned"}
        /\ gpc = "returned" => result_text = "invalid base"
        /\ pc = "idle"
        /\ PreviewsUntouched
        /\ ButtonUntouched

\* the steps of process_colors after the base colour passed validation and
\* before the finally clause has run
BusySteps ==
    {"try", "call left", "in left", "call right", "in right", "display",
     "preview left", "preview right", "except", "finally"}

\* C22: whenever process_colors has returned, on the invalid-base path, the
\* success path or an exception path, the process button is enabled and has
\* the text and the background it had before the call; it is disabled only
\* at a step between the passed validation of the base colour and the end of
\* the call.
C22_ButtonRestoredOnReturn ==
    /\ gpc = "returned" => process_btn = ButtonAtRest
    /\ process_btn.state = "disabled" =>
          /\ gpc \in BusySteps
          /\ is_valid_color(normalized_base)
    /\ gpc = "ready" => process_btn = ButtonAtRest

\* process_colors has returned through the handler after RecolorMode(...)
\* raised, and the button is back
C22_Witness ==
    /\ gpc = "returned"
    /\ mode_var \notin RecolorMode
    /\ result_text = "error"
    /\ original_text = ButtonAtRest.text
    /\ process_btn = ButtonAtRest

\* C23: an exception of the try body of process_colors (RecolorMode(...) on
\* a string that is no mode, or recolor_palette raising for the left or the
\* right panel) goes to the handler and no further: the handler replaces the
\* result text by the error message, process_colors returns with no
\* exception in flight, and from the raise to the return every preview of
\* both panels is what typing left there, also when the left panel's
\* results were already computed.
C23_ExceptionCaughtPreviewsKept ==
    [][ /\ (gpc = "try" /\ mode_var \notin RecolorMode) =>
              (gpc' = "except" /\ pending' = "ValueError")
        /\ (gpc \in {"in left", "in right"} /\ pc = "done" /\ outcome # "returned") =>
              (gpc' = "except" /\ pending' = outcome)
        /\ gpc = "except" =>
              (result_text' = "error" /\ pending' = "none" /\ gpc' = "finally")
        /\ result_text = "error" => result_text' = "error"
        /\ gpc' = "returned" => pending' = "none"
        /\ (gpc' = "except" \/ result_text' = "error") =>
              /\ left_previews' = TypedPreviews(left_entries)
              /\ right_previews' = TypedPreviews(right_entries)
      ]_vars

\* process_colors has returned with the error message after the left
\* panel's results were computed and the right panel's call raised
C23_Witness ==
    /\ gpc = "returned"
    /\ result_text = "error"
    /\ mode_var \in RecolorMode
    /\ left_results # <<>>
    /\ right_results = <<>>
    /\ pending = "none"
    /\ PreviewsUntouched

\* preview i of a panel shows the new colour of the result computed for the
\* colour of entry i
ShowsOwnNewColor(entries, previews, res, i) ==
    \E k \in 1..Len(res) :
        /\ res[k].original = normalize_color(Strip(entries[i]))
        /\ previews[i] = res[k].new_color

\* C24: after process_colors has returned from the success path, for each
\* panel and each entry index i whose text normalises to '#' and six hex
\* digits, preview i shows the new colour computed from the text of entry i,
\* also when an entry before it is blank or holds no colour.
C24_PreviewMatchesOwnEntry ==
    (gpc = "returned" /\ result_text \in {"results", "no data"}) =>
        /\ \A i \in 1..Len(left_entries) :
              IsSixHex(normalize_color(Strip(left_entries[i]))) =>
                 ShowsOwnNewColor(left_entries, left_previews, left_results, i)
        /\ \A i \in 1..Len(right_entries) :
              IsSixHex(normalize_color(Strip(right_entries[i]))) =>
                 ShowsOwnNewColor(right_entries, right_previews, right_results, i)

=============================================================================
